---- MODULE Spec2Model ----
(***************************************************************************)
(* State-machine model of model_zoo/official/recommend/deepfm/train.py,    *)
(* the DeepFM training entry script.  One action per statement (or group   *)
(* of statements without an intermediate failure point); the calls made    *)
(* into the framework are recorded, in order, in the variable calls.       *)
(*                                                                         *)
(* Python values are tagged records: None, PyInt(n), PyStr(s).            *)
(* A Python str is a sequence of one-character strings, so that int(),     *)
(* bool(), str() and + are computed as Python computes them.               *)
(***************************************************************************)
EXTENDS Integers, Sequences, FiniteSets, TLC

\* ------------------------------------------------------------------ bounds
MaxRankSize == 2    \* RANK_SIZE takes the values "0" .. "MaxRankSize"
MaxRank == 1        \* rank ids (RANK_ID, get_rank()) range over 0 .. MaxRank
MaxSteps == 2       \* the training dataset's size ranges over 1 .. MaxSteps

\* ---------------------------------------------------------- Python values
None == [t |-> "None"]
PyInt(n) == [t |-> "int", v |-> n]
PyStr(s) == [t |-> "str", v |-> s]

DigitChars == <<"0", "1", "2", "3", "4", "5", "6", "7", "8", "9">>
IsDigit(c) == \E i \in 1..10 : DigitChars[i] = c
DigitVal(c) == (CHOOSE i \in 1..10 : DigitChars[i] = c) - 1

RECURSIVE ParseNat(_, _)
\* value of the digit string s read after the prefix value acc
ParseNat(s, acc) ==
  IF s = <<>> THEN acc ELSE ParseNat(Tail(s), 10 * acc + DigitVal(Head(s)))

AllDigits(s) == Len(s) > 0 /\ \A i \in 1..Len(s) : IsDigit(s[i])

\* int(x): the result of Python's int() on x, or the exception it raises
PyIntOf(x) ==
  IF x.t = "None" THEN [ok |-> FALSE, exc |-> "TypeError"]
  ELSE IF x.t = "int" THEN [ok |-> TRUE, v |-> x.v]
  ELSE IF AllDigits(x.v) THEN [ok |-> TRUE, v |-> ParseNat(x.v, 0)]
  ELSE IF Len(x.v) > 1 /\ Head(x.v) \in {"-", "+"} /\ AllDigits(Tail(x.v))
    THEN [ok |-> TRUE,
          v |-> IF Head(x.v) = "-" THEN 0 - ParseNat(Tail(x.v), 0)
                ELSE ParseNat(Tail(x.v), 0)]
  ELSE [ok |-> FALSE, exc |-> "ValueError"]

RECURSIVE StrNat(_)
\* str(n) for n >= 0
StrNat(n) ==
  IF n < 10 THEN <<DigitChars[n + 1]>>
  ELSE StrNat(n \div 10) \o <<DigitChars[(n % 10) + 1]>>

\* str(n) for an int n
PyStrOfInt(n) == IF n < 0 THEN <<"-">> \o StrNat(0 - n) ELSE StrNat(n)

\* bool(s) for a str s, as argparse applies type=bool to the argument text
PyBoolOfStr(s) == Len(s) > 0

\* truth value of a Python object in an if statement
Truthy(x) ==
  IF x.t = "None" THEN FALSE
  ELSE IF x.t = "int" THEN x.v # 0
  ELSE Len(x.v) > 0

\* ------------------------------------------------------------ string data
Ascend == <<"A", "s", "c", "e", "n", "d">>
GPU == <<"G", "P", "U">>
CPU == <<"C", "P", "U">>
TPU == <<"T", "P", "U">>
NCCL == <<"n", "c", "c", "l">>
AucLog == <<".", "/", "a", "u", "c", ".", "l", "o", "g">>
LossLog == <<".", "/", "l", "o", "s", "s", ".", "l", "o", "g">>
UnsupportedMsg ==
  <<"U", "n", "s", "u", "p", "p", "o", "r", "t", "e", "d", " ",
    "d", "e", "v", "i", "c", "e", "_", "t", "a", "r", "g", "e", "t", " ">>

\* ------------------------------------------------------------------ state
VARIABLES
  pc,             \* the statement to execute next, or "done" / "exited" / "raised"
  env,            \* os.environ: RANK_SIZE, DEVICE_ID, RANK_ID (None when unset)
  argv,           \* the command line: the text given to each flag (None when absent)
  args_opt,       \* the parsed arguments
  rank_size, device_id, rank_id,
  data_config, model_config, train_config,
  constructed,    \* the configuration instances as they were right after construction
  comm,           \* the communication layer: initialised?, this process's rank, group size
  ds_train, steps_size, model_builder, config_ck, callback_list,
  calls,          \* the calls made into the framework, in order
  stdout,         \* the lines printed
  exc,            \* the uncaught exception, if one was raised, and the line raising it
  exit_status     \* the process's exit status once it has terminated

vars == <<pc, env, argv, args_opt, rank_size, device_id, rank_id, data_config,
          model_config, train_config, constructed, comm, ds_train, steps_size,
          model_builder, config_ck, callback_list, calls, stdout, exc,
          exit_status>>

Unbound == [t |-> "unbound"]

RankSizeTexts == {PyStrOfInt(n) : n \in 0..MaxRankSize} \cup {<<"x">>}
RankIdTexts == {PyStrOfInt(n) : n \in 0..MaxRank}
DeviceIdTexts == {PyStrOfInt(0), <<"x">>}
DeviceTargetTexts == {GPU, CPU, TPU}    \* Ascend is the default of an absent flag
DoEvalTexts == {<<"T", "r", "u", "e">>, <<"F", "a", "l", "s", "e">>, <<>>}
CkptPathTexts == {<<"c", "k">>}
LossFileTexts == {<<"l">>}
EvalFileTexts == {<<"e">>}

Optional(S) == {None} \cup {PyStr(s) : s \in S}

Init ==
  /\ pc = "L34"
  /\ env \in [RANK_SIZE : Optional(RankSizeTexts),
              DEVICE_ID : Optional(DeviceIdTexts),
              RANK_ID : Optional(RankIdTexts)]
  /\ argv \in [device_target : Optional(DeviceTargetTexts),
               do_eval : Optional(DoEvalTexts),
               ckpt_path : Optional(CkptPathTexts),
               loss_file_name : Optional(LossFileTexts),
               eval_file_name : Optional(EvalFileTexts)]
  /\ args_opt = Unbound
  /\ rank_size = Unbound
  /\ device_id = Unbound
  /\ rank_id = Unbound
  /\ data_config = Unbound
  /\ model_config = Unbound
  /\ train_config = Unbound
  /\ constructed = <<>>
  /\ comm = [inited |-> FALSE, rank |-> 0, group_size |-> 1]
  /\ ds_train = Unbound
  /\ steps_size = Unbound
  /\ model_builder = Unbound
  /\ config_ck = Unbound
  /\ callback_list = Unbound
  /\ calls = <<>>
  /\ stdout = <<>>
  /\ exc = None
  /\ exit_status = None

\* os.getenv(k) / os.environ.get(k): None when k is unset
Getenv(k) == env[k]
\* os.environ.get(k, d)
EnvironGet(k, d) == IF env[k] = None THEN d ELSE env[k]

\* an uncaught exception ends the process with status 1
Raise(type) ==
  /\ exc' = [type |-> type, at |-> pc]
  /\ pc' = "raised"
  /\ exit_status' = PyInt(1)

\* sys.exit(code) / exit(code): status 0 for None, the int for an int, 1 otherwise
SysExitStatus(code) ==
  IF code.t = "None" THEN PyInt(0)
  ELSE IF code.t = "int" THEN code
  ELSE PyInt(1)

Call(fn, kw) == calls' = Append(calls, [fn |-> fn, kw |-> kw])

\* lines 34-41: parser.add_argument(...) and parse_known_args()
ParseDoEval(text) == IF text = None THEN TRUE ELSE PyBoolOfStr(text.v)
ParseDeviceTarget(text) == IF text = None THEN Ascend ELSE text.v
\* type=str with the given default
ParseStr(text, default) == IF text = None THEN default ELSE text

ParseArgs ==
  /\ pc = "L34"
  /\ args_opt' = [dataset_path |-> None,
                  ckpt_path |-> ParseStr(argv.ckpt_path, None),
                  eval_file_name |-> ParseStr(argv.eval_file_name, PyStr(AucLog)),
                  loss_file_name |-> ParseStr(argv.loss_file_name, PyStr(LossLog)),
                  do_eval |-> ParseDoEval(argv.do_eval),
                  device_target |-> ParseDeviceTarget(argv.device_target)]
  /\ pc' = "L42"
  /\ UNCHANGED <<env, argv, rank_size, device_id, rank_id, data_config, model_config,
                 train_config, constructed, comm, ds_train, steps_size, model_builder,
                 config_ck, callback_list, calls, stdout, exc, exit_status>>

\* line 42: rank_size = int(os.environ.get("RANK_SIZE", 1))
ReadRankSize ==
  /\ pc = "L42"
  /\ LET r == PyIntOf(EnvironGet("RANK_SIZE", PyInt(1))) IN
       IF r.ok
         THEN /\ rank_size' = PyInt(r.v)
              /\ pc' = "L44"
              /\ UNCHANGED <<exc, exit_status>>
         ELSE /\ Raise(r.exc)
              /\ UNCHANGED rank_size
  /\ UNCHANGED <<env, argv, args_opt, device_id, rank_id, data_config, model_config,
                 train_config, constructed, comm, ds_train, steps_size, model_builder,
                 config_ck, callback_list, calls, stdout>>

\* lines 44-46: random.seed(1); np.random.seed(1); de.config.set_seed(1)
SetSeeds ==
  /\ pc = "L44"
  /\ Call("de.config.set_seed", [seed |-> 1])
  /\ pc' = "L49"
  /\ UNCHANGED <<env, argv, args_opt, rank_size, device_id, rank_id, data_config,
                 model_config, train_config, constructed, comm, ds_train, steps_size,
                 model_builder, config_ck, callback_list, stdout, exc, exit_status>>

\* The field values DataConfig(), ModelConfig() and TrainConfig() may hold; only the
\* fields train.py reads are kept.
DataConfigValues == {[data_format |-> 1]}
ModelConfigValues == {[batch_size |-> 16]}
TrainConfigValues ==
  [batch_size : {16},
   train_epochs : {1},
   save_checkpoint : BOOLEAN,
   ckpt_file_name_prefix : {<<"d", "e", "e", "p", "f", "m">>},
   save_checkpoint_steps : {1, 1000},
   keep_checkpoint_max : {5}]

\* lines 49-51: data_config = DataConfig(); model_config = ModelConfig();
\*              train_config = TrainConfig()
ConstructConfigs ==
  /\ pc = "L49"
  /\ \E d \in DataConfigValues, m \in ModelConfigValues, t \in TrainConfigValues :
       /\ data_config' = d
       /\ model_config' = m
       /\ train_config' = t
       /\ constructed' = Append(constructed,
                                [data_config |-> d, model_config |-> m, train_config |-> t])
  /\ pc' = "L53"
  /\ UNCHANGED <<env, argv, args_opt, rank_size, device_id, rank_id, comm, ds_train,
                 steps_size, model_builder, config_ck, callback_list, calls, stdout,
                 exc, exit_status>>

\* line 53: if rank_size > 1
MultiDevice == rank_size.v > 1
\* line 54: if args_opt.device_target == "Ascend"
TakesAscendBranch == args_opt.device_target = Ascend
\* the elif of line 61 written as a plain else
TakesGpuBranch_AsElse == args_opt.device_target # Ascend
\* line 61: elif args_opt.device_target == "GPU"
TakesGpuBranch == args_opt.device_target # Ascend /\ args_opt.device_target = GPU

\* lines 55 and 73: device_id = int(os.getenv('DEVICE_ID'))
ReadDeviceId(next) ==
  LET r == PyIntOf(Getenv("DEVICE_ID")) IN
    IF r.ok
      THEN /\ device_id' = PyInt(r.v)
           /\ pc' = next
           /\ UNCHANGED <<exc, exit_status>>
      ELSE /\ Raise(r.exc)
           /\ UNCHANGED device_id

\* lines 53-55
AscendReadDeviceId ==
  /\ pc = "L53"
  /\ MultiDevice
  /\ TakesAscendBranch
  /\ ReadDeviceId("L56")
  /\ UNCHANGED <<env, argv, args_opt, rank_size, rank_id, data_config, model_config,
                 train_config, constructed, comm, ds_train, steps_size, model_builder,
                 config_ck, callback_list, calls, stdout>>

\* lines 56 and 74: context.set_context(mode=context.GRAPH_MODE,
\*                    device_target=args_opt.device_target, device_id=device_id)
SetContextWithDeviceId ==
  Call("context.set_context",
       [mode |-> "GRAPH_MODE", device_target |-> args_opt.device_target,
        device_id |-> device_id])

\* line 56
AscendSetContext ==
  /\ pc = "L56"
  /\ SetContextWithDeviceId
  /\ pc' = "L57"
  /\ UNCHANGED <<env, argv, args_opt, rank_size, device_id, rank_id, data_config,
                 model_config, train_config, constructed, comm, ds_train, steps_size,
                 model_builder, config_ck, callback_list, stdout, exc, exit_status>>

\* lines 57 and 64: context.reset_auto_parallel_context()
ResetParallel(at, next) ==
  /\ pc = at
  /\ Call("context.reset_auto_parallel_context", [none |-> None])
  /\ pc' = next
  /\ UNCHANGED <<env, argv, args_opt, rank_size, device_id, rank_id, data_config,
                 model_config, train_config, constructed, comm, ds_train, steps_size,
                 model_builder, config_ck, callback_list, stdout, exc, exit_status>>

\* line 57
AscendResetParallel == ResetParallel("L57", "L58")

\* line 58: context.set_auto_parallel_context(parallel_mode=ParallelMode.DATA_PARALLEL,
\*                                            mirror_mean=True)
AscendSetParallel ==
  /\ pc = "L58"
  /\ Call("context.set_auto_parallel_context",
          [device_num |-> None, parallel_mode |-> "DATA_PARALLEL", mirror_mean |-> TRUE])
  /\ pc' = "L59"
  /\ UNCHANGED <<env, argv, args_opt, rank_size, device_id, rank_id, data_config,
                 model_config, train_config, constructed, comm, ds_train, steps_size,
                 model_builder, config_ck, callback_list, stdout, exc, exit_status>>

\* lines 59 and 62: init() / init("nccl").  The communication layer fixes this
\* process's rank and the group size; neither is derived from os.environ by the script.
CommInit(backend) ==
  /\ \E r \in 0..MaxRank, g \in 2..MaxRankSize :
       comm' = [inited |-> TRUE, rank |-> r, group_size |-> g]
  /\ Call("init", [backend |-> backend])

\* line 59
AscendInit ==
  /\ pc = "L59"
  /\ CommInit(None)
  /\ pc' = "L60"
  /\ UNCHANGED <<env, argv, args_opt, rank_size, device_id, rank_id, data_config,
                 model_config, train_config, constructed, ds_train, steps_size,
                 model_builder, config_ck, callback_list, stdout, exc, exit_status>>

\* line 60 with a default rank: os.environ.get('RANK_ID', 0)
AscendRankIdSource_Default == EnvironGet("RANK_ID", PyInt(0))
\* line 60: rank_id = int(os.environ.get('RANK_ID'))
AscendRankIdSource == Getenv("RANK_ID")

AscendReadRankId ==
  /\ pc = "L60"
  /\ LET r == PyIntOf(AscendRankIdSource) IN
       IF r.ok
         THEN /\ rank_id' = PyInt(r.v)
              /\ pc' = "L78"
              /\ UNCHANGED <<exc, exit_status>>
         ELSE /\ Raise(r.exc)
              /\ UNCHANGED rank_id
  /\ UNCHANGED <<env, argv, args_opt, rank_size, device_id, data_config, model_config,
                 train_config, constructed, comm, ds_train, steps_size, model_builder,
                 config_ck, callback_list, calls, stdout>>

\* lines 53, 61-62
GpuInit ==
  /\ pc = "L53"
  /\ MultiDevice
  /\ ~TakesAscendBranch
  /\ TakesGpuBranch
  /\ CommInit(PyStr(NCCL))
  /\ pc' = "L63"
  /\ UNCHANGED <<env, argv, args_opt, rank_size, device_id, rank_id, data_config,
                 model_config, train_config, constructed, ds_train, steps_size,
                 model_builder, config_ck, callback_list, stdout, exc, exit_status>>

\* line 63: context.set_context(mode=context.GRAPH_MODE,
\*                              device_target=args_opt.device_target)
GpuSetContext ==
  /\ pc = "L63"
  /\ Call("context.set_context",
          [mode |-> "GRAPH_MODE", device_target |-> args_opt.device_target,
           device_id |-> None])
  /\ pc' = "L64"
  /\ UNCHANGED <<env, argv, args_opt, rank_size, device_id, rank_id, data_config,
                 model_config, train_config, constructed, comm, ds_train, steps_size,
                 model_builder, config_ck, callback_list, stdout, exc, exit_status>>

\* line 64
GpuResetParallel == ResetParallel("L64", "L65")

\* get_group_size() and get_rank(): what the communication layer fixed at init()
\* (the script calls neither before init())
GetGroupSize == PyInt(comm.group_size)
GetRank == PyInt(comm.rank)

\* lines 65-67: context.set_auto_parallel_context(device_num=get_group_size(),
\*                parallel_mode=ParallelMode.DATA_PARALLEL, mirror_mean=True)
GpuSetParallel ==
  /\ pc = "L65"
  /\ calls' = calls \o
       <<[fn |-> "get_group_size", kw |-> [none |-> None]],
         [fn |-> "context.set_auto_parallel_context",
          kw |-> [device_num |-> GetGroupSize, parallel_mode |-> "DATA_PARALLEL",
                  mirror_mean |-> TRUE]]>>
  /\ pc' = "L68"
  /\ UNCHANGED <<env, argv, args_opt, rank_size, device_id, rank_id, data_config,
                 model_config, train_config, constructed, comm, ds_train, steps_size,
                 model_builder, config_ck, callback_list, stdout, exc, exit_status>>

\* line 68: rank_id = get_rank()
GpuGetRank ==
  /\ pc = "L68"
  /\ rank_id' = GetRank
  /\ Call("get_rank", [none |-> None])
  /\ pc' = "L78"
  /\ UNCHANGED <<env, argv, args_opt, rank_size, device_id, data_config, model_config,
                 train_config, constructed, comm, ds_train, steps_size, model_builder,
                 config_ck, callback_list, stdout, exc, exit_status>>

\* line 70: print(a, b) writes str(a) + " " + str(b)
PrintLine(a, b) == a \o <<" ">> \o b

\* lines 53, 69-71: print("Unsupported device_target ", args_opt.device_target); exit()
UnsupportedExit ==
  /\ pc = "L53"
  /\ MultiDevice
  /\ ~TakesAscendBranch
  /\ ~TakesGpuBranch
  /\ stdout' = Append(stdout, PrintLine(UnsupportedMsg, args_opt.device_target))
  /\ exit_status' = SysExitStatus(None)
  /\ pc' = "exited"
  /\ UNCHANGED <<env, argv, args_opt, rank_size, device_id, rank_id, data_config,
                 model_config, train_config, constructed, comm, ds_train, steps_size,
                 model_builder, config_ck, callback_list, calls, exc>>

\* lines 53, 72-73
SingleReadDeviceId ==
  /\ pc = "L53"
  /\ ~MultiDevice
  /\ ReadDeviceId("L74")
  /\ UNCHANGED <<env, argv, args_opt, rank_size, rank_id, data_config, model_config,
                 train_config, constructed, comm, ds_train, steps_size, model_builder,
                 config_ck, callback_list, calls, stdout>>

\* line 75 left out
SingleRankSize_Kept == rank_size
\* line 75: rank_size = None
SingleRankSize == None
\* line 76: rank_id = None
SingleRankId == None

\* lines 74-76
SingleSetContext ==
  /\ pc = "L74"
  /\ SetContextWithDeviceId
  /\ rank_size' = SingleRankSize
  /\ rank_id' = SingleRankId
  /\ pc' = "L78"
  /\ UNCHANGED <<env, argv, args_opt, device_id, data_config, model_config,
                 train_config, constructed, comm, ds_train, steps_size, model_builder,
                 config_ck, callback_list, stdout, exc, exit_status>>

\* lines 78-84: the keyword arguments of create_dataset for the training data
TrainDatasetArgs ==
  [path |-> args_opt.dataset_path,
   train_mode |-> TRUE,
   epochs |-> 1,
   batch_size |-> train_config.batch_size,
   data_type |-> [DataType |-> data_config.data_format],
   rank_size |-> rank_size,
   rank_id |-> rank_id]

\* lines 78-86: ds_train = create_dataset(...); steps_size = ds_train.get_dataset_size()
CreateTrainDataset ==
  /\ pc = "L78"
  /\ \E n \in 1..MaxSteps :
       /\ ds_train' = [args |-> TrainDatasetArgs, size |-> n]
       /\ steps_size' = n
  /\ calls' = calls \o
       <<[fn |-> "create_dataset", kw |-> TrainDatasetArgs],
         [fn |-> "get_dataset_size", kw |-> [none |-> None]]>>
  /\ pc' = "L88"
  /\ UNCHANGED <<env, argv, args_opt, rank_size, device_id, rank_id, data_config,
                 model_config, train_config, constructed, comm, model_builder,
                 config_ck, callback_list, stdout, exc, exit_status>>

\* line 88: ModelBuilder(ModelConfig, TrainConfig): the two class objects, named by
\* their class names (the instances are named model_config and train_config)
ModelBuilderArgs == <<"ModelConfig", "TrainConfig">>

\* lines 88-91: model_builder, train_net/eval_net, auc_metric, model
BuildModel ==
  /\ pc = "L88"
  /\ model_builder' = [args |-> ModelBuilderArgs]
  /\ calls' = calls \o
       <<[fn |-> "ModelBuilder", kw |-> [args |-> ModelBuilderArgs]],
         [fn |-> "get_train_eval_net", kw |-> [none |-> None]],
         [fn |-> "AUCMetric", kw |-> [none |-> None]],
         [fn |-> "Model", kw |-> [metrics |-> "auc"]]>>
  /\ pc' = "L93"
  /\ UNCHANGED <<env, argv, args_opt, rank_size, device_id, rank_id, data_config,
                 model_config, train_config, constructed, comm, ds_train, steps_size,
                 config_ck, callback_list, stdout, exc, exit_status>>

\* line 93: time_callback = TimeMonitor(data_size=ds_train.get_dataset_size())
TimeCallback == [cls |-> "TimeMonitor", kw |-> [data_size |-> ds_train.size]]
\* line 94: loss_callback = LossCallBack(loss_file_path=args_opt.loss_file_name)
LossCallback == [cls |-> "LossCallBack", kw |-> [loss_file_path |-> args_opt.loss_file_name]]
\* line 95: callback_list = [time_callback, loss_callback]
InitialCallbacks == <<TimeCallback, LossCallback>>

\* insert(0, cb) in place of append(cb)
ListAppend_Front(list, cb) == <<cb>> \o list
\* lines 109 and 118: callback_list.append(cb)
ListAppend(list, cb) == Append(list, cb)

\* lines 93-95
BuildCallbacks ==
  /\ pc = "L93"
  /\ callback_list' = InitialCallbacks
  /\ calls' = calls \o
       <<[fn |-> "get_dataset_size", kw |-> [none |-> None]],
         [fn |-> "TimeMonitor", kw |-> TimeCallback.kw],
         [fn |-> "LossCallBack", kw |-> LossCallback.kw]>>
  /\ pc' = "L97"
  /\ UNCHANGED <<env, argv, args_opt, rank_size, device_id, rank_id, data_config,
                 model_config, train_config, constructed, comm, ds_train, steps_size,
                 model_builder, config_ck, stdout, exc, exit_status>>

\* line 98: if rank_size
AppendsRankSuffix == Truthy(rank_size)

\* lines 98-99: train_config.ckpt_file_name_prefix after the optional
\* train_config.ckpt_file_name_prefix + str(get_rank())
CkptPrefix ==
  IF AppendsRankSuffix
    THEN train_config.ckpt_file_name_prefix \o PyStrOfInt(GetRank.v)
    ELSE train_config.ckpt_file_name_prefix

\* lines 100-105 without the GPU case
CkptSaveSteps_Configured == train_config.save_checkpoint_steps
\* lines 100-105: the save_checkpoint_steps given to CheckpointConfig
CkptSaveSteps ==
  IF args_opt.device_target = GPU
    THEN steps_size
    ELSE train_config.save_checkpoint_steps

\* lines 101-105: config_ck = CheckpointConfig(save_checkpoint_steps=...,
\*                            keep_checkpoint_max=train_config.keep_checkpoint_max)
CheckpointConfigOf ==
  [save_checkpoint_steps |-> CkptSaveSteps,
   keep_checkpoint_max |-> train_config.keep_checkpoint_max]

\* lines 106-108: ckpt_cb = ModelCheckpoint(prefix=train_config.ckpt_file_name_prefix,
\*                                          directory=args_opt.ckpt_path, config=config_ck)
CkptCallback(prefix, config) ==
  [cls |-> "ModelCheckpoint",
   kw |-> [prefix |-> prefix, directory |-> args_opt.ckpt_path, config |-> config]]

\* line 97: if train_config.save_checkpoint
SaveCheckpointEnabled == train_config.save_checkpoint

\* lines 97-109
CheckpointBranch ==
  /\ pc = "L97"
  /\ IF SaveCheckpointEnabled
       THEN /\ train_config' = [train_config EXCEPT !.ckpt_file_name_prefix = CkptPrefix]
            /\ config_ck' = CheckpointConfigOf
            /\ callback_list' =
                 ListAppend(callback_list, CkptCallback(CkptPrefix, CheckpointConfigOf))
            /\ calls' = calls \o
                 (IF AppendsRankSuffix
                    THEN <<[fn |-> "get_rank", kw |-> [none |-> None]]>>
                    ELSE <<>>) \o
                 <<[fn |-> "CheckpointConfig", kw |-> CheckpointConfigOf],
                   [fn |-> "ModelCheckpoint",
                    kw |-> CkptCallback(CkptPrefix, CheckpointConfigOf).kw]>>
       ELSE UNCHANGED <<train_config, config_ck, callback_list, calls>>
  /\ pc' = "L111"
  /\ UNCHANGED <<env, argv, args_opt, rank_size, device_id, rank_id, data_config,
                 model_config, constructed, comm, ds_train, steps_size, model_builder,
                 stdout, exc, exit_status>>

\* lines 112-115: the keyword arguments of create_dataset for the evaluation data
EvalDatasetArgs ==
  [path |-> args_opt.dataset_path,
   train_mode |-> FALSE,
   epochs |-> 1,
   batch_size |-> train_config.batch_size,
   data_type |-> [DataType |-> data_config.data_format]]

\* lines 116-117: eval_callback = EvalCallBack(model, ds_eval, auc_metric,
\*                                             eval_file_path=args_opt.eval_file_name)
EvalCallback ==
  [cls |-> "EvalCallBack",
   kw |-> [ds_eval |-> EvalDatasetArgs, eval_file_path |-> args_opt.eval_file_name]]

\* the test of line 111 dropped
EvalEnabled_Always == TRUE
\* line 111: if args_opt.do_eval
EvalEnabled == args_opt.do_eval

\* lines 111-118
EvalBranch ==
  /\ pc = "L111"
  /\ IF EvalEnabled
       THEN /\ callback_list' = ListAppend(callback_list, EvalCallback)
            /\ calls' = calls \o
                 <<[fn |-> "create_dataset", kw |-> EvalDatasetArgs],
                   [fn |-> "EvalCallBack", kw |-> EvalCallback.kw]>>
       ELSE UNCHANGED <<callback_list, calls>>
  /\ pc' = "L119"
  /\ UNCHANGED <<env, argv, args_opt, rank_size, device_id, rank_id, data_config,
                 model_config, train_config, constructed, comm, ds_train, steps_size,
                 model_builder, config_ck, stdout, exc, exit_status>>

\* line 119: model.train(train_config.train_epochs, ds_train, callbacks=callback_list);
\* the script ends after it, with status 0
Train ==
  /\ pc = "L119"
  /\ Call("model.train",
          [epochs |-> train_config.train_epochs, ds_train |-> ds_train,
           callbacks |-> callback_list])
  /\ exit_status' = PyInt(0)
  /\ pc' = "done"
  /\ UNCHANGED <<env, argv, args_opt, rank_size, device_id, rank_id, data_config,
                 model_config, train_config, constructed, comm, ds_train, steps_size,
                 model_builder, config_ck, callback_list, stdout, exc>>

\* the statements whose next step is a call into the framework or its dataset,
\* model and callback libraries
FrameworkCallSite ==
  \/ pc \in {"L44", "L56", "L57", "L58", "L59", "L63", "L64", "L65", "L68", "L74",
             "L78", "L88", "L93", "L119"}
  \/ pc = "L53" /\ MultiDevice /\ ~TakesAscendBranch /\ TakesGpuBranch
  \/ pc = "L97" /\ SaveCheckpointEnabled
  \/ pc = "L111" /\ EvalEnabled

\* a framework call raises: the script catches nothing, so the exception ends the run
FrameworkRaise ==
  /\ FrameworkCallSite
  /\ Raise("FrameworkError")
  /\ UNCHANGED <<env, argv, args_opt, rank_size, device_id, rank_id, data_config,
                 model_config, train_config, constructed, comm, ds_train, steps_size,
                 model_builder, config_ck, callback_list, calls, stdout>>

Next ==
  \/ ParseArgs
  \/ ReadRankSize
  \/ SetSeeds
  \/ ConstructConfigs
  \/ AscendReadDeviceId
  \/ AscendSetContext
  \/ AscendResetParallel
  \/ AscendSetParallel
  \/ AscendInit
  \/ AscendReadRankId
  \/ GpuInit
  \/ GpuSetContext
  \/ GpuResetParallel
  \/ GpuSetParallel
  \/ GpuGetRank
  \/ UnsupportedExit
  \/ SingleReadDeviceId
  \/ SingleSetContext
  \/ CreateTrainDataset
  \/ BuildModel
  \/ BuildCallbacks
  \/ CheckpointBranch
  \/ EvalBranch
  \/ Train
  \/ FrameworkRaise

Spec == Init /\ [][Next]_vars

\* ------------------------------------------------------- claim vocabulary
CallsOf(fn) == {i \in 1..Len(calls) : calls[i].fn = fn}
NumCalls(fn) == Cardinality(CallsOf(fn))

\* what the command line and the environment ask for
GivenTarget == IF argv.device_target = None THEN Ascend ELSE argv.device_target.v
GivenLossFile == IF argv.loss_file_name = None THEN PyStr(LossLog) ELSE argv.loss_file_name
GivenEvalFile == IF argv.eval_file_name = None THEN PyStr(AucLog) ELSE argv.eval_file_name
EnvRankSize == PyIntOf(EnvironGet("RANK_SIZE", PyInt(1)))
EnvMulti == EnvRankSize.ok /\ EnvRankSize.v > 1
EnvSingle == EnvRankSize.ok /\ EnvRankSize.v <= 1

AfterCheckpointBranch == pc \in {"L111", "L119", "done"}
PastSetup ==
  \/ pc \in {"L78", "L88", "L93", "L97", "L111", "L119", "done"}
  \/ NumCalls("create_dataset") > 0
  \/ NumCalls("model.train") > 0

SideEffectCalls ==
  {"context.set_context", "context.reset_auto_parallel_context",
   "context.set_auto_parallel_context", "init", "create_dataset", "TimeMonitor",
   "LossCallBack", "CheckpointConfig", "ModelCheckpoint", "EvalCallBack", "model.train"}
NoSideEffectCalls == \A i \in 1..Len(calls) : calls[i].fn \notin SideEffectCalls

ClassesOf(cbs) == [k \in 1..Len(cbs) |-> cbs[k].cls]
IndicesOfClass(cbs, cls) == {k \in 1..Len(cbs) : cbs[k].cls = cls}

\* ------------------------------------------------------------------ C1
\* C1: when RANK_SIZE > 1 and device_target is neither Ascend nor GPU, the script
\* prints an error message and the process ends with a nonzero exit status.
C1_UnsupportedTargetExitsNonzero ==
  pc = "exited" =>
    /\ Len(stdout) = 1
    /\ exit_status.t = "int"
    /\ exit_status.v # 0

\* ------------------------------------------------------------------ C2
\* C2: with RANK_SIZE > 1 and an unsupported device_target the run ends at the guard
\* before any set_context / init / create_dataset / callback / checkpoint / train
\* call; the guard is the only early termination of the script itself; with
\* RANK_SIZE <= 1 or unset an unrecognised device_target is not rejected and reaches
\* context.set_context unchanged.
C2_GuardBeforeSideEffects ==
  /\ (EnvMulti /\ GivenTarget \notin {Ascend, GPU}) =>
       /\ NoSideEffectCalls
       /\ pc \in {"L34", "L42", "L44", "L49", "L53", "exited", "raised"}
       /\ pc = "raised" => exc.at = "L44"
  /\ pc = "exited" => (EnvMulti /\ GivenTarget \notin {Ascend, GPU})
  /\ rank_size = None =>
       /\ EnvSingle
       /\ NumCalls("context.set_context") = 1
       /\ \A i \in CallsOf("context.set_context") :
            calls[i].kw.device_target = GivenTarget

C2_Witness == pc = "exited" /\ GivenTarget = TPU /\ calls # <<>>

\* ------------------------------------------------------------------ C3
\* C3: the callback list given to model.train always holds the loss callback writing
\* to --loss_file_name, and holds the evaluation callback, writing to
\* --eval_file_name, exactly when do_eval is true; with do_eval false no evaluation
\* dataset is created and no EvalCallBack is constructed.
C3_CallbacksAtTrain ==
  /\ \A i \in CallsOf("model.train") :
       LET cbs == calls[i].kw.callbacks
           loss == IndicesOfClass(cbs, "LossCallBack")
           eval == IndicesOfClass(cbs, "EvalCallBack")
       IN /\ \E k \in loss : cbs[k].kw.loss_file_path = GivenLossFile
          /\ (eval # {}) <=> args_opt.do_eval
          /\ \A k \in eval : cbs[k].kw.eval_file_path = GivenEvalFile
  /\ (pc # "L34" /\ ~args_opt.do_eval) =>
       /\ NumCalls("EvalCallBack") = 0
       /\ \A i \in CallsOf("create_dataset") : calls[i].kw.train_mode

C3_Witness == pc = "done" /\ ~args_opt.do_eval

\* ------------------------------------------------------------------ C4
FalseTexts == {<<"F", "a", "l", "s", "e">>, <<"f", "a", "l", "s", "e">>, <<"0">>}
TrueTexts == {<<"T", "r", "u", "e">>, <<"t", "r", "u", "e">>, <<"1">>}

\* C4: --do_eval defaults to true when absent; a supplied value denoting false
\* ("False", "false", "0") parses to false and one denoting true parses to true.
C4_DoEvalFollowsText ==
  pc # "L34" =>
    /\ argv.do_eval = None => args_opt.do_eval = TRUE
    /\ (argv.do_eval # None /\ argv.do_eval.v \in FalseTexts) => args_opt.do_eval = FALSE
    /\ (argv.do_eval # None /\ argv.do_eval.v \in TrueTexts) => args_opt.do_eval = TRUE

\* ------------------------------------------------------------------ C5
\* the checkpoint callbacks registered, all with directory --ckpt_path, retention
\* keep_checkpoint_max and the save cadence steps
CheckpointRegistered(steps) ==
  LET ckpts == IndicesOfClass(callback_list, "ModelCheckpoint") IN
    IF constructed[1].train_config.save_checkpoint
      THEN /\ Cardinality(ckpts) = 1
           /\ \A k \in ckpts :
                /\ callback_list[k].kw.directory = argv.ckpt_path
                /\ callback_list[k].kw.config.keep_checkpoint_max
                     = constructed[1].train_config.keep_checkpoint_max
                /\ callback_list[k].kw.config.save_checkpoint_steps = steps
      ELSE /\ ckpts = {}
           /\ NumCalls("ModelCheckpoint") = 0

\* C5 as stated: with save_checkpoint enabled one ModelCheckpoint is registered with
\* directory --ckpt_path, retention keep_checkpoint_max and cadence
\* train_config.save_checkpoint_steps on every device_target; none when disabled.
C5_ConfiguredCadenceOnEveryTarget ==
  AfterCheckpointBranch =>
    CheckpointRegistered(constructed[1].train_config.save_checkpoint_steps)

\* C5 amended: the cadence is train_config.save_checkpoint_steps unless device_target
\* is GPU, where it is the size of the training dataset (one save per epoch).
C5_CadenceByTarget ==
  AfterCheckpointBranch =>
    CheckpointRegistered(IF GivenTarget = GPU
                           THEN ds_train.size
                           ELSE constructed[1].train_config.save_checkpoint_steps)

C5_Witness ==
  /\ pc = "done"
  /\ GivenTarget = GPU
  /\ train_config.save_checkpoint
  /\ ds_train.size # train_config.save_checkpoint_steps

\* ------------------------------------------------------------------ C6
\* C6: the three configuration instances are constructed once and never written
\* afterwards, so at model.train every field has its value from construction, and
\* ModelBuilder is handed the constructed instances.
C6_ConfigsReadOnly ==
  pc = "done" =>
    /\ Len(constructed) = 1
    /\ data_config = constructed[1].data_config
    /\ model_config = constructed[1].model_config
    /\ train_config = constructed[1].train_config
    /\ model_builder.args = <<"model_config", "train_config">>

\* ------------------------------------------------------------------ C7
\* C7: RANK_SIZE alone selects the parallel mode.  With RANK_SIZE > 1 (device_target
\* Ascend or GPU) the auto-parallel context is reset, then set to DATA_PARALLEL with
\* mirror_mean, init() is called once, and the training dataset gets
\* rank_size = RANK_SIZE and a rank_id that is not None; with RANK_SIZE unset or <= 1
\* there is no init() and no auto-parallel call and the dataset gets None, None.
C7_ParallelModeByRankSize ==
  /\ ~EnvMulti =>
       /\ NumCalls("init") = 0
       /\ NumCalls("context.reset_auto_parallel_context") = 0
       /\ NumCalls("context.set_auto_parallel_context") = 0
  /\ \A d \in CallsOf("create_dataset") :
       calls[d].kw.train_mode =>
         IF EnvMulti
           THEN /\ GivenTarget \in {Ascend, GPU}
                /\ NumCalls("init") = 1
                /\ NumCalls("context.reset_auto_parallel_context") = 1
                /\ NumCalls("context.set_auto_parallel_context") = 1
                /\ \A i \in CallsOf("context.reset_auto_parallel_context") :
                     \A j \in CallsOf("context.set_auto_parallel_context") :
                       /\ i < j
                       /\ j < d
                       /\ calls[j].kw.parallel_mode = "DATA_PARALLEL"
                       /\ calls[j].kw.mirror_mean = TRUE
                /\ \A i \in CallsOf("init") : i < d
                /\ calls[d].kw.rank_size = PyInt(EnvRankSize.v)
                /\ calls[d].kw.rank_id.t = "int"
           ELSE /\ calls[d].kw.rank_size = None
                /\ calls[d].kw.rank_id = None

C7_Witness ==
  /\ pc = "done"
  /\ EnvMulti
  /\ GivenTarget = GPU
  /\ ds_train.args.rank_size = PyInt(2)

\* ------------------------------------------------------------------ C8
\* C8: a run that neither exits at the guard nor raises calls model.train exactly
\* once, as its last framework call, after context setup, training-dataset creation,
\* model construction and the assembly of the callback list, which is
\* [TimeMonitor, LossCallBack, ModelCheckpoint (if enabled), EvalCallBack (if enabled)].
C8_TrainOnceLast ==
  /\ pc # "done" => NumCalls("model.train") = 0
  /\ pc = "done" =>
       LET t == Len(calls)
           train_ds == {i \in CallsOf("create_dataset") : calls[i].kw.train_mode}
           setup == CallsOf("context.set_context") \cup CallsOf("init")
                      \cup CallsOf("context.reset_auto_parallel_context")
                      \cup CallsOf("context.set_auto_parallel_context")
           builders == CallsOf("TimeMonitor") \cup CallsOf("LossCallBack")
                         \cup CallsOf("CheckpointConfig") \cup CallsOf("ModelCheckpoint")
                         \cup CallsOf("EvalCallBack")
       IN /\ CallsOf("model.train") = {t}
          /\ CallsOf("context.set_context") # {}
          /\ Cardinality(train_ds) = 1
          /\ Cardinality(CallsOf("Model")) = 1
          /\ \A i \in setup : \A d \in train_ds : i < d
          /\ \A d \in train_ds : \A m \in CallsOf("Model") : d < m
          /\ \A m \in CallsOf("Model") : \A b \in builders : m < b
          /\ \A b \in builders : b < t
          /\ calls[t].kw.ds_train = ds_train
          /\ ClassesOf(calls[t].kw.callbacks) =
               <<"TimeMonitor", "LossCallBack">>
                 \o (IF constructed[1].train_config.save_checkpoint
                       THEN <<"ModelCheckpoint">> ELSE <<>>)
                 \o (IF args_opt.do_eval THEN <<"EvalCallBack">> ELSE <<>>)

C8_Witness == pc = "done" /\ Len(callback_list) = 4

\* ------------------------------------------------------------------ C9
\* C9: with checkpointing enabled, in multi-device mode the suffix appended to the
\* checkpoint prefix is the rank id that create_dataset was given, on the Ascend and
\* the GPU branch; in single-device mode the prefix gets no suffix.
C9_SuffixIsDatasetRank ==
  (AfterCheckpointBranch /\ constructed[1].train_config.save_checkpoint) =>
    IF ds_train.args.rank_size # None
      THEN train_config.ckpt_file_name_prefix =
             constructed[1].train_config.ckpt_file_name_prefix
               \o PyStrOfInt(ds_train.args.rank_id.v)
      ELSE train_config.ckpt_file_name_prefix =
             constructed[1].train_config.ckpt_file_name_prefix

\* ------------------------------------------------------------------ C10
NeedsDeviceId == EnvSingle \/ (EnvMulti /\ GivenTarget = Ascend)
NeedsRankId == EnvMulti /\ GivenTarget = Ascend

\* C10: the single-device branch needs DEVICE_ID, the multi-device Ascend branch
\* needs DEVICE_ID and RANK_ID, the multi-device GPU branch reads neither.  A run
\* with a needed variable unset raises and never reaches create_dataset or
\* model.train; a missing DEVICE_ID fails before any context.set_context call, a
\* missing RANK_ID on Ascend only after context configuration and init().
C10_RequiredEnvVars ==
  /\ (NeedsDeviceId /\ env.DEVICE_ID = None) =>
       /\ ~PastSetup
       /\ NumCalls("context.set_context") = 0
       /\ pc = "raised" => (exc.at \in {"L44", "L53"} /\ (exc.at = "L53" => exc.type = "TypeError"))
  /\ (NeedsRankId /\ env.RANK_ID = None) => ~PastSetup
  /\ (exc # None /\ exc.at = "L60") =>
       /\ exc.type = "TypeError"
       /\ env.RANK_ID = None
       /\ pc = "raised"
       /\ NumCalls("context.set_context") = 1
       /\ NumCalls("context.reset_auto_parallel_context") = 1
       /\ NumCalls("context.set_auto_parallel_context") = 1
       /\ NumCalls("init") = 1
  /\ (EnvMulti /\ GivenTarget = GPU) =>
       /\ device_id = Unbound
       /\ exc # None => exc.type = "FrameworkError"
       /\ rank_id # Unbound => rank_id = PyInt(comm.rank)

C10_Witness == pc = "raised" /\ exc # None /\ exc.at = "L60"
====
